---- MODULE Spec2Model ----
(***************************************************************************)
(* EditorX: the drag-and-drop text editor of src/assets/funcional1.jsx.    *)
(* The React state of App and Editor is the state of the model.  A handler *)
(* runs to completion on the values of the last render, its state updates  *)
(* are applied together, and the effects whose dependencies changed run    *)
(* before the next event is handled: one action is one handler followed by *)
(* its effects.                                                            *)
(*                                                                         *)
(* A JavaScript string is a sequence of one-character strings.  Indices    *)
(* are the 0-based indices of the source; Sequences are 1-based, so the    *)
(* element at JavaScript index i is s[i + 1].                              *)
(***************************************************************************)
EXTENDS Integers, Sequences, FiniteSets, Bags, TLC

VARIABLES
    openedFiles,       \* App: list of {name, content}
    currentFileIndex,  \* App: index of the file shown
    notification,      \* App: {message, type}
    cursorPosition,    \* Editor: {line, char}
    history,           \* Editor: list of content snapshots
    historyIndex,      \* Editor: pointer into history, -1 when empty
    searchQuery,       \* Editor: text of the search field
    replaceQuery,      \* Editor: text of the replace field
    searchResults,     \* Editor: list of {line, start, end}
    pendingReads,      \* FileReaders created by handleDrop, not yet loaded
    localStorage       \* the two items the App effects read and write

vars == <<openedFiles, currentFileIndex, notification, cursorPosition, history,
          historyIndex, searchQuery, replaceQuery, searchResults, pendingReads,
          localStorage>>

\* ------------------------------------------------------------------ bounds

\* A keystroke or a replace-all is offered only while the content it leaves
\* has at most MaxLen characters and the cursor it leaves has line and column
\* at most MaxLen.
MaxLen == 1
\* A commit is offered only while the history it produces has at most
\* MaxHist entries.
MaxHist == 2
\* A drop is offered only while it leaves at most MaxFiles files open or
\* being read.
MaxFiles == 2
\* The width of a character cell, in the units of a pointer position.
CharWidth == 2
\* The stored document a search visit starts from has at most MaxText
\* characters.
MaxText == 3

\* ------------------------------------------------------- JavaScript values

NL == "\n"

\* What `undefined` becomes when concatenated to a string.
Undefined == <<"u", "n", "d", "e", "f", "i", "n", "e", "d">>

Min(a, b) == IF a < b THEN a ELSE b
Max(a, b) == IF a > b THEN a ELSE b

\* String.prototype.slice(start, end) for 0 <= start: both ends are clamped
\* to the length.
slice(s, start, end) == SubSeq(s, Min(start, Len(s)) + 1, Min(end, Len(s)))

\* String.prototype.slice(start).
sliceFrom(s, start) == slice(s, start, Len(s))

\* String.prototype.split('\n'): the pieces between the newlines, one more
\* than there are newlines.
RECURSIVE split(_)
split(s) ==
    IF \A i \in 1..Len(s) : s[i] # NL
    THEN <<s>>
    ELSE LET i == CHOOSE i \in 1..Len(s) :
                      s[i] = NL /\ \A j \in 1..(i - 1) : s[j] # NL
         IN  <<SubSeq(s, 1, i - 1)>> \o split(SubSeq(s, i + 1, Len(s)))

\* Array.prototype.join('\n').
RECURSIVE join(_)
join(lines) ==
    IF Len(lines) = 0 THEN <<>>
    ELSE IF Len(lines) = 1 THEN lines[1]
    ELSE lines[1] \o <<NL>> \o join(Tail(lines))

\* Array.prototype.splice(at, 1): removes the element at index `at` if there
\* is one.
spliceOut(lines, at) ==
    IF at < Len(lines)
    THEN SubSeq(lines, 1, at) \o SubSeq(lines, at + 2, Len(lines))
    ELSE lines

\* Array.prototype.splice(at, 0, item), at <= length.
spliceIn(lines, at, item) ==
    SubSeq(lines, 1, at) \o <<item>> \o SubSeq(lines, at + 1, Len(lines))

\* lines with the element at index i replaced.
setLine(lines, i, l) == [lines EXCEPT ![i + 1] = l]

\* --------------------------------------------------- regular expressions

\* The characters escapeRegExp escapes: . * + ? ^ $ { } ( ) | [ ] \
RegExpSpecial ==
    {".", "*", "+", "?", "^", "$", "{", "}", "(", ")", "|", "[", "]", "\\"}

\* A variant that escapes nothing.
escapeRegExp_none(string) == string

\* string.replace(/[.*+?^${}()|[\]\\]/g, '\\$&'): a backslash before every
\* special character.
RECURSIVE escapeRegExp(_)
escapeRegExp(string) ==
    IF Len(string) = 0 THEN <<>>
    ELSE (IF Head(string) \in RegExpSpecial
          THEN <<"\\", Head(string)>>
          ELSE <<Head(string)>>) \o escapeRegExp(Tail(string))

\* new RegExp(source, 'gi') for the sources the editor builds: a backslash
\* makes the next character a literal, an unescaped dot matches any character
\* but a line terminator, any other character matches itself.  One atom per
\* matched character.
RECURSIVE RegExp(_)
RegExp(source) ==
    IF Len(source) = 0 THEN <<>>
    ELSE IF Head(source) = "\\" /\ Len(source) >= 2
    THEN <<[any |-> FALSE, ch |-> source[2]]>> \o RegExp(SubSeq(source, 3, Len(source)))
    ELSE IF Head(source) = "."
    THEN <<[any |-> TRUE, ch |-> "."]>> \o RegExp(Tail(source))
    ELSE <<[any |-> FALSE, ch |-> Head(source)]>> \o RegExp(Tail(source))

\* The 'i' flag compares characters by their upper-case form.
toUpperCase(ch) ==
    CASE ch = "a" -> "A"
      [] ch = "b" -> "B"
      [] OTHER -> ch

atomMatches(atom, ch) ==
    IF atom.any THEN ch # NL ELSE toUpperCase(atom.ch) = toUpperCase(ch)

\* The regex matches str at index i.
matchesAt(regex, str, i) ==
    /\ i + Len(regex) <= Len(str)
    /\ \A k \in 1..Len(regex) : atomMatches(regex[k], str[i + k])

\* The start indices of the successive matches of a global regex in str from
\* lastIndex on: leftmost first, each search resuming where the last match
\* ended.  An empty match advances by one character.
RECURSIVE matchIndices(_, _, _)
matchIndices(regex, str, lastIndex) ==
    IF lastIndex > Len(str) THEN <<>>
    ELSE IF matchesAt(regex, str, lastIndex)
    THEN <<lastIndex>>
             \o matchIndices(regex, str, lastIndex + Max(Len(regex), 1))
    ELSE matchIndices(regex, str, lastIndex + 1)

\* The text a replacement string stands for at one match (GetSubstitution
\* with no capture groups): $$ is a dollar, $& the matched text, $` the text
\* before the match, $' the text after it; anything else is itself.
RECURSIVE GetSubstitution(_, _, _, _)
GetSubstitution(matched, str, position, replacement) ==
    IF Len(replacement) = 0 THEN <<>>
    ELSE IF Head(replacement) = "$" /\ Len(replacement) >= 2
              /\ replacement[2] \in {"$", "&", "`", "'"}
    THEN (CASE replacement[2] = "$" -> <<"$">>
            [] replacement[2] = "&" -> matched
            [] replacement[2] = "`" -> SubSeq(str, 1, position)
            [] replacement[2] = "'" ->
                   SubSeq(str, position + Len(matched) + 1, Len(str)))
         \o GetSubstitution(matched, str, position,
                            SubSeq(replacement, 3, Len(replacement)))
    ELSE <<Head(replacement)>>
         \o GetSubstitution(matched, str, position, Tail(replacement))

\* str.replace(regex, replacement) with a global regex: the text between the
\* matches is kept, each match gives way to its substitution.
RECURSIVE replaceFrom(_, _, _, _, _)
replaceFrom(str, regex, replacement, indices, from) ==
    IF Len(indices) = 0 THEN SubSeq(str, from + 1, Len(str))
    ELSE LET position == Head(indices)
             matched  == SubSeq(str, position + 1, position + Len(regex))
         IN  SubSeq(str, from + 1, position)
             \o GetSubstitution(matched, str, position, replacement)
             \o replaceFrom(str, regex, replacement, Tail(indices),
                            position + Len(regex))

replace(str, regex, replacement) ==
    replaceFrom(str, regex, replacement, matchIndices(regex, str, 0), 0)

\* ------------------------------------------------------------ state record

\* The state as one record: what a handler reads (the values of the last
\* render) and what it leaves behind.
St ==
    [openedFiles      |-> openedFiles,
     currentFileIndex |-> currentFileIndex,
     notification     |-> notification,
     cursorPosition   |-> cursorPosition,
     history          |-> history,
     historyIndex     |-> historyIndex,
     searchQuery      |-> searchQuery,
     replaceQuery     |-> replaceQuery,
     searchResults    |-> searchResults,
     pendingReads     |-> pendingReads,
     localStorage     |-> localStorage]

\* const currentFile = openedFiles[currentFileIndex], when there is one.
hasCurrentFile(s) ==
    s.currentFileIndex >= 0 /\ s.currentFileIndex < Len(s.openedFiles)

currentFile(s) == s.openedFiles[s.currentFileIndex + 1]

\* currentFile?.name
currentFileName(s) == IF hasCurrentFile(s) THEN currentFile(s).name ELSE <<"undefined">>

\* history[i], `undefined` outside the array.
historyAt(s, i) ==
    IF i >= 0 /\ i < Len(s.history) THEN <<s.history[i + 1]>> ELSE <<>>

NoNotification == [message |-> "", count |-> 0, name |-> <<>>, type |-> ""]

\* ------------------------------------------------------------------ Editor

\* A variant that pushes onto the whole history, leaving the entries after
\* the index in place.
updateContentAndHistory_keepingRedo(s, newContent, addToHistory) ==
    IF ~hasCurrentFile(s) THEN s
    ELSE LET newFiles ==
                 [s.openedFiles EXCEPT ![s.currentFileIndex + 1] =
                      [name |-> currentFile(s).name, content |-> newContent]]
             newHistory == s.history \o <<newContent>>
         IN  IF addToHistory /\ historyAt(s, s.historyIndex) # <<newContent>>
             THEN [s EXCEPT !.openedFiles = newFiles,
                            !.history = newHistory,
                            !.historyIndex = Len(newHistory) - 1]
             ELSE [s EXCEPT !.openedFiles = newFiles]

\* A variant that pushes without comparing with the entry under the index.
updateContentAndHistory_alwaysPushing(s, newContent, addToHistory) ==
    IF ~hasCurrentFile(s) THEN s
    ELSE LET newFiles ==
                 [s.openedFiles EXCEPT ![s.currentFileIndex + 1] =
                      [name |-> currentFile(s).name, content |-> newContent]]
             newHistory ==
                 SubSeq(s.history, 1, Max(s.historyIndex + 1, 0))
                     \o <<newContent>>
         IN  IF addToHistory
             THEN [s EXCEPT !.openedFiles = newFiles,
                            !.history = newHistory,
                            !.historyIndex = Len(newHistory) - 1]
             ELSE [s EXCEPT !.openedFiles = newFiles]

\* updateContentAndHistory(newContent, addToHistory = true)
updateContentAndHistory(s, newContent, addToHistory) ==
    IF ~hasCurrentFile(s) THEN s
    ELSE LET newFiles ==
                 [s.openedFiles EXCEPT ![s.currentFileIndex + 1] =
                      [name |-> currentFile(s).name, content |-> newContent]]
             newHistory ==
                 SubSeq(s.history, 1, Max(s.historyIndex + 1, 0))
                     \o <<newContent>>
         IN  IF addToHistory /\ historyAt(s, s.historyIndex) # <<newContent>>
             THEN [s EXCEPT !.openedFiles = newFiles,
                            !.history = newHistory,
                            !.historyIndex = Len(newHistory) - 1]
             ELSE [s EXCEPT !.openedFiles = newFiles]

\* A variant that gives the history its one entry and leaves the index.
resetHistoryEffect_keepingIndex(prev, s) ==
    IF <<s.currentFileIndex, currentFileName(s)>>
           = <<prev.currentFileIndex, currentFileName(prev)>>
    THEN s
    ELSE IF hasCurrentFile(s)
    THEN [s EXCEPT !.history = <<currentFile(s).content>>]
    ELSE [s EXCEPT !.history = <<>>]

\* The effect on [currentFileIndex, currentFile?.name]: the history starts
\* over when either differs from the render before.
resetHistoryEffect(prev, s) ==
    IF <<s.currentFileIndex, currentFileName(s)>>
           = <<prev.currentFileIndex, currentFileName(prev)>>
    THEN s
    ELSE IF hasCurrentFile(s)
    THEN [s EXCEPT !.history = <<currentFile(s).content>>, !.historyIndex = 0]
    ELSE [s EXCEPT !.history = <<>>, !.historyIndex = -1]

\* A variant that stops at the first match of the line.
lineResults_first(regex, line, lineIndex) ==
    LET indices == matchIndices(regex, line, 0)
    IN  [k \in 1..Min(Len(indices), 1) |->
            [line |-> lineIndex, start |-> indices[k],
             end |-> indices[k] + Len(regex)]]

\* The matches of one line, as {line, start, end}.
lineResults(regex, line, lineIndex) ==
    LET indices == matchIndices(regex, line, 0)
    IN  [k \in 1..Len(indices) |->
            [line |-> lineIndex, start |-> indices[k],
             end |-> indices[k] + Len(regex)]]

RECURSIVE linesResults(_, _, _)
linesResults(regex, lines, lineIndex) ==
    IF lineIndex >= Len(lines) THEN <<>>
    ELSE lineResults(regex, lines[lineIndex + 1], lineIndex)
             \o linesResults(regex, lines, lineIndex + 1)

\* A variant that leaves the results as they are when there is nothing to
\* search for.
searchEffect_keeping(s) ==
    IF Len(s.searchQuery) = 0 \/ ~hasCurrentFile(s)
    THEN s
    ELSE [s EXCEPT !.searchResults =
              linesResults(RegExp(escapeRegExp(s.searchQuery)),
                           split(currentFile(s).content), 0)]

\* The effect on [searchQuery, currentFile]: the matches of the query in
\* every line of the current content.
searchEffect(s) ==
    IF Len(s.searchQuery) = 0 \/ ~hasCurrentFile(s)
    THEN [s EXCEPT !.searchResults = <<>>]
    ELSE [s EXCEPT !.searchResults =
              linesResults(RegExp(escapeRegExp(s.searchQuery)),
                           split(currentFile(s).content), 0)]

\* A variant that reports a replace-all without a match as a success, and
\* commits the content it leaves.
handleReplaceAll_succeeding(s) ==
    IF ~hasCurrentFile(s) \/ Len(s.searchQuery) = 0
    THEN s
    ELSE LET regex           == RegExp(escapeRegExp(s.searchQuery))
             originalContent == currentFile(s).content
             matches         == matchIndices(regex, originalContent, 0)
             newContent      == replace(originalContent, regex, s.replaceQuery)
         IN  IF Len(matches) = 0 \/ newContent # originalContent
             THEN [updateContentAndHistory(s, newContent, TRUE)
                      EXCEPT !.notification =
                                 [message |-> "Se reemplazaron n instancias.",
                                  count |-> Len(matches), name |-> <<>>,
                                  type |-> "success"]]
             ELSE s

\* handleReplaceAll
handleReplaceAll(s) ==
    IF ~hasCurrentFile(s) \/ Len(s.searchQuery) = 0
    THEN s
    ELSE LET regex           == RegExp(escapeRegExp(s.searchQuery))
             originalContent == currentFile(s).content
             matches         == matchIndices(regex, originalContent, 0)
             newContent      == replace(originalContent, regex, s.replaceQuery)
         IN  IF Len(matches) = 0
             THEN [s EXCEPT !.notification =
                                [message |-> "No se encontraron coincidencias.",
                                 count |-> 0, name |-> <<>>, type |-> "info"]]
             ELSE IF newContent # originalContent
             THEN [updateContentAndHistory(s, newContent, TRUE)
                      EXCEPT !.notification =
                                 [message |-> "Se reemplazaron n instancias.",
                                  count |-> Len(matches), name |-> <<>>,
                                  type |-> "success"]]
             ELSE s

\* A keyboard event: the key and the modifiers the handler reads.
Ev(key, ctrlKey, metaKey) == [key |-> key, ctrlKey |-> ctrlKey, metaKey |-> metaKey]

\* The keys with a one-character name.
SingleCharKeys == {"a", "h", "s", "y", "z", ";"}

NavigationKeys == {"ArrowUp", "ArrowDown", "ArrowLeft", "ArrowRight", "Home", "End"}

\* lines[i] is a string (not undefined).
isLine(lines, i) == i >= 0 /\ i < Len(lines)

\* What the switch of handleKeyDown works on: the lines of the content, the
\* cursor, the contentChanged flag, and whether a TypeError was thrown
\* (reading .length or .slice of a line that is not there).
Keyed(lines, line, char) ==
    [lines |-> lines, line |-> line, char |-> char,
     contentChanged |-> FALSE, threw |-> FALSE]

Throws(k) == [k EXCEPT !.threw = TRUE]

\* lines[i].length
lengthOf(k, i) == Len(k.lines[i + 1])

\* case 'ArrowUp'
ArrowUp(k) ==
    IF k.line > 0
    THEN IF isLine(k.lines, k.line - 1)
         THEN [k EXCEPT !.line = k.line - 1,
                        !.char = Min(k.char, lengthOf(k, k.line - 1))]
         ELSE Throws(k)
    ELSE k

\* A variant that keeps the column whatever the length of the line below.
ArrowDown_unclamped(k) ==
    IF k.line < Len(k.lines) - 1
    THEN [k EXCEPT !.line = k.line + 1]
    ELSE k

\* case 'ArrowDown'
ArrowDown(k) ==
    IF k.line < Len(k.lines) - 1
    THEN [k EXCEPT !.line = k.line + 1,
                   !.char = Min(k.char, lengthOf(k, k.line + 1))]
    ELSE k

\* A variant that goes round from the start of the first line to the end of
\* the last one.
ArrowLeft_wrapping(k) ==
    IF k.char > 0 THEN [k EXCEPT !.char = k.char - 1]
    ELSE IF k.line > 0
    THEN IF isLine(k.lines, k.line - 1)
         THEN [k EXCEPT !.line = k.line - 1,
                        !.char = lengthOf(k, k.line - 1)]
         ELSE Throws(k)
    ELSE [k EXCEPT !.line = Len(k.lines) - 1,
                   !.char = lengthOf(k, Len(k.lines) - 1)]

\* case 'ArrowLeft'
ArrowLeft(k) ==
    IF k.char > 0 THEN [k EXCEPT !.char = k.char - 1]
    ELSE IF k.line > 0
    THEN IF isLine(k.lines, k.line - 1)
         THEN [k EXCEPT !.line = k.line - 1,
                        !.char = lengthOf(k, k.line - 1)]
         ELSE Throws(k)
    ELSE k

\* case 'ArrowRight'
ArrowRight(k) ==
    IF ~isLine(k.lines, k.line) THEN Throws(k)
    ELSE IF k.char < lengthOf(k, k.line) THEN [k EXCEPT !.char = k.char + 1]
    ELSE IF k.line < Len(k.lines) - 1
    THEN [k EXCEPT !.line = k.line + 1, !.char = 0]
    ELSE k

\* A variant that also empties the content.
Home_clearing(k) ==
    [k EXCEPT !.lines = <<<<>>>>, !.line = 0, !.char = 0, !.contentChanged = TRUE]

\* case 'Home'
Home(k) == [k EXCEPT !.char = 0]

\* case 'End'
End(k) ==
    IF isLine(k.lines, k.line) THEN [k EXCEPT !.char = lengthOf(k, k.line)]
    ELSE Throws(k)

\* case 'Backspace': the character before the cursor goes, or the line joins
\* the one above; `+=` of a line that is not there appends "undefined".
Backspace(k) ==
    IF k.char > 0
    THEN IF isLine(k.lines, k.line)
         THEN [k EXCEPT
                  !.lines = setLine(k.lines, k.line,
                      slice(k.lines[k.line + 1], 0, k.char - 1)
                          \o sliceFrom(k.lines[k.line + 1], k.char)),
                  !.char = k.char - 1,
                  !.contentChanged = TRUE]
         ELSE Throws(k)
    ELSE IF k.line > 0
    THEN IF isLine(k.lines, k.line - 1)
         THEN [k EXCEPT
                  !.lines = spliceOut(
                      setLine(k.lines, k.line - 1,
                          k.lines[k.line] \o
                              (IF isLine(k.lines, k.line)
                               THEN k.lines[k.line + 1]
                               ELSE Undefined)),
                      k.line),
                  !.line = k.line - 1,
                  !.char = lengthOf(k, k.line - 1),
                  !.contentChanged = TRUE]
         ELSE Throws(k)
    ELSE [k EXCEPT !.contentChanged = TRUE]

\* A variant that puts a line break into the line instead of cutting it.
Enter_inline(k) ==
    IF isLine(k.lines, k.line)
    THEN [k EXCEPT
             !.lines = setLine(k.lines, k.line,
                 slice(k.lines[k.line + 1], 0, k.char) \o <<NL>>
                     \o sliceFrom(k.lines[k.line + 1], k.char)),
             !.line = k.line + 1,
             !.char = 0,
             !.contentChanged = TRUE]
    ELSE Throws(k)

\* case 'Enter'
Enter(k) ==
    IF isLine(k.lines, k.line)
    THEN [k EXCEPT
             !.lines = spliceIn(
                 setLine(k.lines, k.line, slice(k.lines[k.line + 1], 0, k.char)),
                 k.line + 1, sliceFrom(k.lines[k.line + 1], k.char)),
             !.line = k.line + 1,
             !.char = 0,
             !.contentChanged = TRUE]
    ELSE Throws(k)

\* default: a key with a one-character name, without Ctrl or Cmd, is typed.
Default(k, e) ==
    IF e.key \in SingleCharKeys /\ ~e.ctrlKey /\ ~e.metaKey
    THEN IF isLine(k.lines, k.line)
         THEN [k EXCEPT
                  !.lines = setLine(k.lines, k.line,
                      slice(k.lines[k.line + 1], 0, k.char) \o <<e.key>>
                          \o sliceFrom(k.lines[k.line + 1], k.char)),
                  !.char = k.char + 1,
                  !.contentChanged = TRUE]
         ELSE Throws(k)
    ELSE k

\* switch (e.key)
keySwitch(k, e) ==
    CASE e.key = "ArrowUp"    -> ArrowUp(k)
      [] e.key = "ArrowDown"  -> ArrowDown(k)
      [] e.key = "ArrowLeft"  -> ArrowLeft(k)
      [] e.key = "ArrowRight" -> ArrowRight(k)
      [] e.key = "Home"       -> Home(k)
      [] e.key = "End"        -> End(k)
      [] e.key = "Backspace"  -> Backspace(k)
      [] e.key = "Enter"      -> Enter(k)
      [] OTHER                -> Default(k, e)

\* A variant that, at index 0, goes round to the last entry.
undo_wrapping(s) ==
    LET newIndex == IF s.historyIndex > 0 THEN s.historyIndex - 1
                    ELSE Len(s.history) - 1
    IN  IF newIndex >= 0
        THEN [updateContentAndHistory(s, s.history[newIndex + 1], FALSE)
                 EXCEPT !.historyIndex = newIndex]
        ELSE s

\* A variant that commits the content it brings back.
undo_committing(s) ==
    IF s.historyIndex > 0
    THEN LET newIndex == s.historyIndex - 1
         IN  [updateContentAndHistory(s, s.history[newIndex + 1], TRUE)
                 EXCEPT !.historyIndex = newIndex]
    ELSE s

\* Ctrl+Z / Cmd+Z
undo(s) ==
    IF s.historyIndex > 0
    THEN LET newIndex == s.historyIndex - 1
         IN  [updateContentAndHistory(s, s.history[newIndex + 1], FALSE)
                 EXCEPT !.historyIndex = newIndex]
    ELSE s

\* Ctrl+Y / Cmd+Y
redo(s) ==
    IF s.historyIndex < Len(s.history) - 1
    THEN LET newIndex == s.historyIndex + 1
         IN  [updateContentAndHistory(s, s.history[newIndex + 1], FALSE)
                 EXCEPT !.historyIndex = newIndex]
    ELSE s

\* Ctrl+S / Cmd+S: the download, and the notification that stays.
save(s) ==
    [s EXCEPT !.notification =
                  [message |-> "Archivo guardado correctamente.",
                   count |-> 0, name |-> <<>>, type |-> "success"]]

\* handleKeyDown
handleKeyDown(s, e) ==
    IF ~hasCurrentFile(s) THEN s
    ELSE IF (e.ctrlKey \/ e.metaKey) /\ e.key = "s" THEN save(s)
    ELSE IF (e.ctrlKey \/ e.metaKey) /\ e.key = "z" THEN undo(s)
    ELSE IF (e.ctrlKey \/ e.metaKey) /\ e.key = "y" THEN redo(s)
    ELSE LET k == keySwitch(Keyed(split(currentFile(s).content),
                                  s.cursorPosition.line,
                                  s.cursorPosition.char), e)
             t == IF k.contentChanged
                  THEN updateContentAndHistory(s, join(k.lines), TRUE)
                  ELSE s
         IN  IF k.threw THEN s
             ELSE [t EXCEPT !.cursorPosition = [line |-> k.line, char |-> k.char]]

\* The onClick of a line: the cursor goes to the boundary next to the
\* character cell the pointer is closest to.  Cell i starts at i * CharWidth.
RECURSIVE closestFrom(_, _, _, _)
closestFrom(lineLength, clientX, charIndex, closest) ==
    IF charIndex >= lineLength THEN closest
    ELSE LET offset == clientX - charIndex * CharWidth
             abs(x) == IF x < 0 THEN -x ELSE x
             next   == IF closest.infinite \/ abs(offset) < abs(closest.offset)
                       THEN [infinite |-> FALSE, offset |-> offset,
                             index |-> charIndex
                                 + (IF 2 * offset > CharWidth THEN 1 ELSE 0)]
                       ELSE closest
         IN  closestFrom(lineLength, clientX, charIndex + 1, next)

lineClick(s, lineIndex, clientX) ==
    LET line == split(currentFile(s).content)[lineIndex + 1]
        closest == closestFrom(Len(line), clientX, 0,
                       [infinite |-> TRUE, offset |-> 0, index |-> Len(line)])
    IN  [s EXCEPT !.cursorPosition =
                      [line |-> lineIndex,
                       char |-> IF Len(line) = 0 THEN 0 ELSE closest.index]]

\* onClick of an explorer entry or of a tab: setCurrentFileIndex(index).
selectFile(s, index) ==
    [s EXCEPT !.currentFileIndex = index]

\* file.type.startsWith("text/")
startsWithText(type) == Len(type) >= 5 /\ SubSeq(type, 1, 5) = <<"t", "e", "x", "t", "/">>

\* file.name.includes('.')
includesDot(name) == \E i \in 1..Len(name) : name[i] = "."

accepted(file) ==
    startsWithText(file.type) \/ ~includesDot(file.name) \/ file.type = <<>>

\* handleDrop: a FileReader per accepted file, an error notification per
\* rejected one (the last stays).
RECURSIVE dropFrom(_, _, _, _)
dropFrom(s, droppedFiles, index, firstNewFileIndex) ==
    IF index >= Len(droppedFiles) THEN s
    ELSE LET file == droppedFiles[index + 1]
             next ==
                 IF accepted(file)
                 THEN [s EXCEPT !.pendingReads = @ (+) SetToBag({
                          [name |-> file.name, content |-> file.content,
                           index |-> index, length |-> Len(droppedFiles),
                           firstNewFileIndex |-> firstNewFileIndex]})]
                 ELSE [s EXCEPT !.notification =
                          [message |-> "Error: El archivo no es de texto.",
                           count |-> 0, name |-> file.name, type |-> "error"]]
         IN  dropFrom(next, droppedFiles, index + 1, firstNewFileIndex)

handleDrop(s, droppedFiles) ==
    dropFrom(s, droppedFiles, 0, Len(s.openedFiles))

\* reader.onload of one FileReader.
onload(s, reader) ==
    LET newFile == [name |-> reader.name, content |-> reader.content]
    IN  [s EXCEPT !.openedFiles = Append(@, newFile),
                  !.pendingReads = @ (-) SetToBag({reader}),
                  !.currentFileIndex =
                      IF reader.index = reader.length - 1
                      THEN reader.firstNewFileIndex + reader.index
                      ELSE @]

\* handleClose(indexToClose)
handleClose(s, indexToClose) ==
    LET newFiles == spliceOut(s.openedFiles, indexToClose)
    IN  [s EXCEPT !.openedFiles = newFiles,
                  !.currentFileIndex =
                      IF Len(newFiles) = 0 THEN 0
                      ELSE IF s.currentFileIndex = indexToClose
                      THEN Max(0, indexToClose - 1)
                      ELSE IF s.currentFileIndex > indexToClose
                      THEN s.currentFileIndex - 1
                      ELSE @]

\* --------------------------------------------------------------------- App

Digits == <<"0", "1", "2", "3", "4", "5", "6", "7", "8", "9">>

\* String(n), n >= 0: the decimal digits.
RECURSIVE String(_)
String(n) ==
    IF n < 10 THEN <<Digits[n + 1]>>
    ELSE String(n \div 10) \o <<Digits[(n % 10) + 1]>>

digitValue(ch) == CHOOSE d \in 0..9 : Digits[d + 1] = ch
isDigit(ch) == \E d \in 1..10 : Digits[d] = ch

\* parseInt(str, 10): the leading digits as a number, <<>> for NaN.
RECURSIVE parseDigits(_, _)
parseDigits(str, acc) ==
    IF Len(str) = 0 \/ ~isDigit(Head(str)) THEN acc
    ELSE parseDigits(Tail(str), 10 * acc + digitValue(Head(str)))

parseInt(str) ==
    IF Len(str) = 0 \/ ~isDigit(Head(str)) THEN <<>>
    ELSE <<parseDigits(str, 0)>>

\* An item of localStorage: <<>> when absent (getItem gives null), else the
\* stored text.  JSON.stringify of the file list is the text that
\* JSON.parse reads back as that list.
JSONstringify(value) == <<[json |-> value]>>

\* Stored texts that no JSON.stringify of a file list gives: one that is not
\* JSON, on which JSON.parse throws a SyntaxError, and one that is the JSON
\* of a value that is not an array.
NotJSON == [syntaxError |-> TRUE]
JSONOfObject == [object |-> TRUE]

\* The effect of App that runs once, on mount.  The catch sets the empty
\* list and index 0; a parsed value that is not an array is left aside, and
\* an array is taken as the file list, whatever its elements are.
loadEffect(s) ==
    LET savedFiles == s.localStorage.myEditorOpenedFiles
        savedIndex == s.localStorage.myEditorCurrentFileIndex
        t == IF savedFiles # <<>> /\ "json" \in DOMAIN savedFiles[1]
             THEN [s EXCEPT !.openedFiles = savedFiles[1].json]
             ELSE s
    IN  IF savedFiles # <<>> /\ savedFiles[1] = NotJSON
        THEN [s EXCEPT !.openedFiles = <<>>, !.currentFileIndex = 0]
        ELSE IF savedIndex # <<>> /\ Len(savedIndex[1]) > 0
                    /\ parseInt(savedIndex[1]) # <<>>
        THEN [t EXCEPT !.currentFileIndex = parseInt(savedIndex[1])[1]]
        ELSE t

\* The effect of App on [openedFiles, currentFileIndex].
saveEffect(s) ==
    IF Len(s.openedFiles) > 0
    THEN [s EXCEPT !.localStorage =
              [myEditorOpenedFiles |-> JSONstringify(s.openedFiles),
               myEditorCurrentFileIndex |-> <<String(s.currentFileIndex)>>]]
    ELSE s

\* The render after a handler that left s from prev, and the effects whose
\* dependencies changed.
render(prev, s) == saveEffect(searchEffect(resetHistoryEffect(prev, s)))

\* The state of a fresh page: the useState initial values.
mount(storage) ==
    [openedFiles      |-> <<>>,
     currentFileIndex |-> 0,
     notification     |-> NoNotification,
     cursorPosition   |-> [line |-> 0, char |-> 0],
     history          |-> <<>>,
     historyIndex     |-> -1,
     searchQuery      |-> <<>>,
     replaceQuery     |-> <<>>,
     searchResults    |-> <<>>,
     pendingReads     |-> EmptyBag,
     localStorage     |-> storage]

\* A visit: the page mounts on what localStorage holds,
\* and the load effect reads it.
revisit(storage) == render(mount(storage), loadEffect(mount(storage)))

NoStorage == [myEditorOpenedFiles |-> <<>>, myEditorCurrentFileIndex |-> <<>>]

\* ------------------------------------------------------------------ inputs

TextPlain == <<"t", "e", "x", "t", "/", "p", "l", "a", "i", "n">>
ImagePng  == <<"i", "m", "a", "g", "e", "/", "p", "n", "g">>

\* The files a user drops: two text files and a picture.
DroppableFiles ==
    {[name |-> <<"f">>, type |-> TextPlain, content |-> <<"a">>],
     [name |-> <<"g">>, type |-> <<>>, content |-> <<>>],
     [name |-> <<"i", ".", "p">>, type |-> ImagePng, content |-> <<>>]}

\* One or two files in a drop.
Drops ==
    {<<f>> : f \in DroppableFiles}
        \cup {<<f, g>> : f \in DroppableFiles, g \in DroppableFiles}

acceptedCount(droppedFiles) ==
    Cardinality({i \in 1..Len(droppedFiles) : accepted(droppedFiles[i])})

KeyEvents ==
    {Ev(k, FALSE, FALSE) :
         k \in NavigationKeys \cup {"Backspace", "Enter", "a", "Tab"}}
        \cup {Ev(k, TRUE, FALSE) : k \in {"z", "y", "s", "h", "a"}}
        \cup {Ev("z", FALSE, TRUE)}

Queries == {<<>>, <<"a">>}
Replacements == {<<>>, <<"a">>}

\* ----------------------------------------------------------------- actions

Becomes(s) ==
    /\ openedFiles' = s.openedFiles
    /\ currentFileIndex' = s.currentFileIndex
    /\ notification' = s.notification
    /\ cursorPosition' = s.cursorPosition
    /\ history' = s.history
    /\ historyIndex' = s.historyIndex
    /\ searchQuery' = s.searchQuery
    /\ replaceQuery' = s.replaceQuery
    /\ searchResults' = s.searchResults
    /\ pendingReads' = s.pendingReads
    /\ localStorage' = s.localStorage

\* The content shown, <<>> when no file is.
content == IF hasCurrentFile(St) THEN currentFile(St).content ELSE <<>>

\* A first visit: nothing stored, the page just mounted.
Init ==
    LET s == mount(NoStorage)
    IN  /\ openedFiles = s.openedFiles
        /\ currentFileIndex = s.currentFileIndex
        /\ notification = s.notification
        /\ cursorPosition = s.cursorPosition
        /\ history = s.history
        /\ historyIndex = s.historyIndex
        /\ searchQuery = s.searchQuery
        /\ replaceQuery = s.replaceQuery
        /\ searchResults = s.searchResults
        /\ pendingReads = s.pendingReads
        /\ localStorage = s.localStorage

\* The handler's result s is offered to the page: the render and its effects
\* make it the next state.
Handled(s) == \E t \in {render(St, s)} : Becomes(t)

KeyDown ==
    \E e \in KeyEvents :
        \E s \in {handleKeyDown(St, e)} :
            /\ hasCurrentFile(s) => Len(currentFile(s).content) <= MaxLen
            /\ Len(s.history) <= MaxHist
            /\ s.cursorPosition.line <= MaxLen
            /\ s.cursorPosition.char <= MaxLen
            /\ Handled(s)

LineClick ==
    /\ hasCurrentFile(St)
    /\ \E lineIndex \in 0..(Len(split(content)) - 1) :
           \E clientX \in 0..(CharWidth * Len(split(content)[lineIndex + 1])) :
               Handled(lineClick(St, lineIndex, clientX))

SetSearchQuery ==
    /\ hasCurrentFile(St)
    /\ \E q \in Queries : Handled([St EXCEPT !.searchQuery = q])

SetReplaceQuery ==
    /\ hasCurrentFile(St)
    /\ \E q \in Replacements : Handled([St EXCEPT !.replaceQuery = q])

ReplaceAll ==
    /\ hasCurrentFile(St)
    /\ \E s \in {handleReplaceAll(St)} :
           /\ Len(currentFile(s).content) <= MaxLen
           /\ Len(s.history) <= MaxHist
           /\ Handled(s)

SelectFile ==
    \E index \in 0..(Len(openedFiles) - 1) : Handled(selectFile(St, index))

Close ==
    \E indexToClose \in 0..(Len(openedFiles) - 1) :
        Handled(handleClose(St, indexToClose))

Drop ==
    \E droppedFiles \in Drops :
        /\ Len(openedFiles) + BagCardinality(pendingReads)
               + acceptedCount(droppedFiles) <= MaxFiles
        /\ Handled(handleDrop(St, droppedFiles))

Load ==
    \E reader \in BagToSet(pendingReads) : Handled(onload(St, reader))

Dismiss ==
    /\ notification # NoNotification
    /\ Handled([St EXCEPT !.notification = NoNotification])

\* The page is loaded again: a fresh mount on what localStorage holds.
Reload ==
    \E t \in {revisit(localStorage)} : Becomes(t)

Next ==
    \/ KeyDown
    \/ LineClick
    \/ SetSearchQuery
    \/ SetReplaceQuery
    \/ ReplaceAll
    \/ SelectFile
    \/ Close
    \/ Drop
    \/ Load
    \/ Dismiss
    \/ Reload

Spec == Init /\ [][Next]_vars

stored(files, index) ==
    [myEditorOpenedFiles |-> JSONstringify(files),
     myEditorCurrentFileIndex |-> <<String(index)>>]

\* A stored session of one document.
StoredSessions ==
    {stored(<<[name |-> <<"f">>, content |-> <<"a">>]>>, 0)}

InitSession ==
    \E storage \in StoredSessions :
        \E s \in {revisit(storage)} :
            /\ openedFiles = s.openedFiles
            /\ currentFileIndex = s.currentFileIndex
            /\ notification = s.notification
            /\ cursorPosition = s.cursorPosition
            /\ history = s.history
            /\ historyIndex = s.historyIndex
            /\ searchQuery = s.searchQuery
            /\ replaceQuery = s.replaceQuery
            /\ searchResults = s.searchResults
            /\ pendingReads = s.pendingReads
            /\ localStorage = s.localStorage

\* The visit goes on without another file being dropped.
NextSession ==
    \/ KeyDown
    \/ LineClick
    \/ SetSearchQuery
    \/ SetReplaceQuery
    \/ ReplaceAll
    \/ SelectFile
    \/ Close
    \/ Dismiss

SpecSession == InitSession /\ [][NextSession]_vars

\* Stored sessions of two documents of the same name (the same file dropped
\* twice, one copy edited since), either of them the active one.
StoredTabs ==
    {stored(<<[name |-> <<"f">>, content |-> <<"a">>],
              [name |-> <<"f">>, content |-> <<>>]>>, index) :
         index \in {0, 1}}

InitTabs ==
    \E storage \in StoredTabs :
        \E s \in {revisit(storage)} :
            /\ openedFiles = s.openedFiles
            /\ currentFileIndex = s.currentFileIndex
            /\ notification = s.notification
            /\ cursorPosition = s.cursorPosition
            /\ history = s.history
            /\ historyIndex = s.historyIndex
            /\ searchQuery = s.searchQuery
            /\ replaceQuery = s.replaceQuery
            /\ searchResults = s.searchResults
            /\ pendingReads = s.pendingReads
            /\ localStorage = s.localStorage

\* The visit goes on with the keyboard, the pointer and the tabs.
NextTabs ==
    \/ KeyDown
    \/ LineClick
    \/ SelectFile
    \/ Close
    \/ Dismiss

SpecTabs == InitTabs /\ [][NextTabs]_vars

\* ------------------------------------------------ a visit to search in

\* The strings of n characters of an alphabet.
RECURSIVE StringsOf(_, _)
StringsOf(alphabet, n) ==
    IF n = 0 THEN {<<>>}
    ELSE {<<ch>> \o s : ch \in alphabet, s \in StringsOf(alphabet, n - 1)}

\* The contents searched in: a letter in both cases, a character that is
\* special in a regular expression, and the line break.
TextAlphabet == {"a", "A", ".", NL}

Texts == UNION {StringsOf(TextAlphabet, n) : n \in 0..MaxText}

\* What the search field is set to.  The field is a one-line text input; the
\* handlers take the value as it comes, and the texts with a line break show
\* what they do with one.
SearchTexts ==
    {<<>>, <<"a">>, <<"A">>, <<".">>, <<"a", ".">>, <<"a", "a">>,
     <<NL>>, <<"a", NL>>, <<".", NL, "a">>}

\* What the replace field is set to.
ReplaceTexts ==
    {<<>>, <<"a">>, <<"a", "a">>, <<".">>, <<"$", "&">>, <<"$", "$">>,
     <<"$", "`">>, <<"$", "'">>, <<"$", "1">>}

\* A stored session of one document with any of the contents.
StoredTexts ==
    {stored(<<[name |-> <<"f">>, content |-> c]>>, 0) : c \in Texts}

InitSearch ==
    \E storage \in StoredTexts :
        \E s \in {revisit(storage)} :
            /\ openedFiles = s.openedFiles
            /\ currentFileIndex = s.currentFileIndex
            /\ notification = s.notification
            /\ cursorPosition = s.cursorPosition
            /\ history = s.history
            /\ historyIndex = s.historyIndex
            /\ searchQuery = s.searchQuery
            /\ replaceQuery = s.replaceQuery
            /\ searchResults = s.searchResults
            /\ pendingReads = s.pendingReads
            /\ localStorage = s.localStorage

\* The visit is followed up to its first replace-all that changes the
\* content: until then the history has its one first entry.
Search ==
    /\ Len(history) = 1
    /\ \E q \in SearchTexts : Handled([St EXCEPT !.searchQuery = q])

Replacement ==
    /\ Len(history) = 1
    /\ \E r \in ReplaceTexts : Handled([St EXCEPT !.replaceQuery = r])

ReplaceOnce ==
    /\ Len(history) = 1
    /\ Handled(handleReplaceAll(St))

NextSearch ==
    \/ Search
    \/ Replacement
    \/ ReplaceOnce

SpecSearch == InitSearch /\ [][NextSearch]_vars

\* ------------------------------------------------- a visit to edit lines in

\* The keys that move the cursor, pressed alone.
MotionEvents == {Ev(k, FALSE, FALSE) : k \in NavigationKeys}

\* The keys that go through the switch without moving the cursor: the ones
\* that edit, and ones that have no case of their own.
SwitchEvents ==
    {Ev(k, FALSE, FALSE) : k \in {"Backspace", "Enter", "a", "Tab"}}
        \cup {Ev("a", TRUE, FALSE), Ev("a", FALSE, TRUE)}

\* The session is one stored document with any of the contents.  The cursor
\* goes wherever the keys and the pointer take it.
Motion ==
    /\ hasCurrentFile(St)
    /\ \E e \in MotionEvents : Handled(handleKeyDown(St, e))

\* The visit is followed up to its first commit, by a key when nothing is
\* searched for and else by a replace-all: until then the history has its
\* one first entry.
Edit ==
    /\ Len(history) = 1
    /\ searchQuery = <<>>
    /\ \E e \in SwitchEvents : Handled(handleKeyDown(St, e))

Find ==
    /\ Len(history) = 1
    /\ \E q \in Queries : Handled([St EXCEPT !.searchQuery = q])

\* What was committed is undone and redone.
UndoRedo ==
    /\ Len(history) > 1
    /\ \E e \in {Ev("z", TRUE, FALSE), Ev("y", TRUE, FALSE)} :
           Handled(handleKeyDown(St, e))

NextLines ==
    \/ Motion
    \/ LineClick
    \/ Edit
    \/ Find
    \/ ReplaceOnce
    \/ UndoRedo

SpecLines == InitSearch /\ [][NextLines]_vars

\* ------------------------------------------- lines with fields before them

\* string.split(separator): the parts between the separators, one part more
\* than there are separators.
RECURSIVE splitOn(_, _)
splitOn(string, separator) ==
    IF \A i \in 1..Len(string) : string[i] # separator
    THEN <<string>>
    ELSE LET i == CHOOSE i \in 1..Len(string) :
                      /\ string[i] = separator
                      /\ \A j \in 1..(i - 1) : string[j] # separator
         IN  <<SubSeq(string, 1, i - 1)>>
                 \o splitOn(SubSeq(string, i + 1, Len(string)), separator)

\* parts.join(separator)
RECURSIVE joinWith(_, _)
joinWith(parts, separator) ==
    IF Len(parts) = 0 THEN <<>>
    ELSE IF Len(parts) = 1 THEN parts[1]
    ELSE parts[1] \o <<separator>> \o joinWith(Tail(parts), separator)

\* A variant that counts the three parts without what separates them.
getLetterStartIndex_parts(line) ==
    LET parts == splitOn(line, ";")
    IN  IF Len(parts) > 3
        THEN Len(parts[1]) + Len(parts[2]) + Len(parts[3]) + 1
        ELSE 0

\* getLetterStartIndex(line), with the separator ';' it has by default.
getLetterStartIndex(line) ==
    LET parts == splitOn(line, ";")
    IN  IF Len(parts) > 3
        THEN Len(joinWith(SubSeq(parts, 1, 3), ";")) + 1
        ELSE 0

\* The letterStartIndex the render computes for each line of the content.
letterStartIndex(s, lineIndex) ==
    getLetterStartIndex(split(currentFile(s).content)[lineIndex + 1])

\* The contents of the stored document: letters and separators.
FieldTexts == UNION {StringsOf({"a", ";"}, n) : n \in 0..MaxText}

StoredFields ==
    {stored(<<[name |-> <<"f">>, content |-> c]>>, 0) : c \in FieldTexts}

InitFields ==
    \E storage \in StoredFields :
        \E s \in {revisit(storage)} :
            /\ openedFiles = s.openedFiles
            /\ currentFileIndex = s.currentFileIndex
            /\ notification = s.notification
            /\ cursorPosition = s.cursorPosition
            /\ history = s.history
            /\ historyIndex = s.historyIndex
            /\ searchQuery = s.searchQuery
            /\ replaceQuery = s.replaceQuery
            /\ searchResults = s.searchResults
            /\ pendingReads = s.pendingReads
            /\ localStorage = s.localStorage

\* A letter, a separator or a line break is typed, up to the first commit.
TypeField ==
    /\ Len(history) = 1
    /\ \E key \in {"a", ";", "Enter"} :
           Handled(handleKeyDown(St, Ev(key, FALSE, FALSE)))

NextFields ==
    \/ Motion
    \/ LineClick
    \/ TypeField
    \/ UndoRedo

SpecFields == InitFields /\ [][NextFields]_vars

\* ------------------------------------------------- handlers, then the render

\* The state a handler and the render after it leave from state s.
afterKey(s, e) == render(s, handleKeyDown(s, e))
afterReplaceAll(s) == render(s, handleReplaceAll(s))
afterSelect(s, index) == render(s, selectFile(s, index))
afterClose(s, indexToClose) == render(s, handleClose(s, indexToClose))
afterLoad(s, reader) == render(s, onload(s, reader))
afterCommit(s, newContent) == render(s, updateContentAndHistory(s, newContent, TRUE))

isUndo(e) == (e.ctrlKey \/ e.metaKey) /\ e.key = "z"
isRedo(e) == (e.ctrlKey \/ e.metaKey) /\ e.key = "y"

UndoEvents == {e \in KeyEvents : isUndo(e)}
RedoEvents == {e \in KeyEvents : isRedo(e)}
EditEvents == {e \in KeyEvents : ~isUndo(e) /\ ~isRedo(e)}
NavigationEvents ==
    {Ev(k, c, m) : k \in NavigationKeys, c \in BOOLEAN, m \in BOOLEAN}

CtrlZ == Ev("z", TRUE, FALSE)
CtrlY == Ev("y", TRUE, FALSE)

\* The content of the active document of s.
contentOf(s) == currentFile(s).content

\* ------------------------------------------------------------------ claims

\* C1: whenever a document is active, the history entry under the index is
\* the active document's current content.
C1_HistoryEntryIsContent ==
    hasCurrentFile(St) => historyAt(St, historyIndex) = <<content>>

\* C2: whenever a document is active, the cursor's line is a line of its
\* content and the cursor's column is at most that line's length.
C2_CursorInRange ==
    hasCurrentFile(St) =>
        LET lines == split(content)
        IN  /\ cursorPosition.line >= 0
            /\ cursorPosition.line < Len(lines)
            /\ cursorPosition.char >= 0
            /\ cursorPosition.char <= Len(lines[cursorPosition.line + 1])

\* C3: selecting another document, closing the active one while another
\* stays, or the load that makes the new document the active one, each leave
\* the history with the single entry of the now active content, index 0.
C3_ResetOnDocumentChange ==
    /\ \A index \in 0..(Len(openedFiles) - 1) :
           index # currentFileIndex =>
               LET t == afterSelect(St, index)
               IN  t.history = <<contentOf(t)>> /\ t.historyIndex = 0
    /\ hasCurrentFile(St) =>
           LET t == afterClose(St, currentFileIndex)
           IN  hasCurrentFile(t) =>
                   t.history = <<contentOf(t)>> /\ t.historyIndex = 0
    /\ \A reader \in BagToSet(pendingReads) :
           LET t == afterLoad(St, reader)
           IN  t.currentFileIndex = Len(openedFiles) =>
                   t.history = <<reader.content>> /\ t.historyIndex = 0

\* C4: with at least two history entries and the index above 0, undo and
\* then redo leave the content and the index that were there before.
C4_UndoThenRedoRestores ==
    (hasCurrentFile(St) /\ Len(history) >= 2 /\ historyIndex > 0) =>
        LET r == afterKey(afterKey(St, CtrlZ), CtrlY)
        IN  contentOf(r) = content /\ r.historyIndex = historyIndex

\* C5: after an undo that gave content back, an edit keystroke or a
\* replace-all that changes the content leaves the history cut at the index,
\* with the new content as its last entry and the index on it, and redo does
\* nothing.
C5_CommitAfterUndoDiscardsRedo ==
    (hasCurrentFile(St) /\ historyIndex > 0) =>
        \A z \in UndoEvents :
            LET u == afterKey(St, z)
            IN  \A c \in {afterKey(u, e) : e \in EditEvents}
                             \cup {afterReplaceAll(u)} :
                    contentOf(c) # contentOf(u) =>
                        /\ c.history = SubSeq(u.history, 1, u.historyIndex + 1)
                                           \o <<contentOf(c)>>
                        /\ c.historyIndex = Len(c.history) - 1
                        /\ \A y \in RedoEvents : afterKey(c, y) = c

C5_Witness ==
    /\ hasCurrentFile(St)
    /\ historyIndex > 0
    /\ \E e \in EditEvents :
           contentOf(afterKey(afterKey(St, CtrlZ), e))
               # contentOf(afterKey(St, CtrlZ))
    /\ contentOf(afterReplaceAll(afterKey(St, CtrlZ)))
           # contentOf(afterKey(St, CtrlZ))

\* C6: a commit of the content the history entry under the index already
\* holds changes neither the history nor the index: so for an edit keystroke
\* or a replace-all that leaves that content, and so for the same content
\* committed a second time.
C6_CommitOfSameContentIsNoOp ==
    hasCurrentFile(St) =>
        /\ historyIndex >= 0 =>
               LET t == afterCommit(St, history[historyIndex + 1])
               IN  t.history = history /\ t.historyIndex = historyIndex
        /\ \A c \in {afterKey(St, e) : e \in EditEvents}
                        \cup {afterReplaceAll(St)} :
               /\ historyAt(St, historyIndex) = <<contentOf(c)>> =>
                      c.history = history /\ c.historyIndex = historyIndex
               /\ LET t == afterCommit(c, contentOf(c))
                  IN  contentOf(c) # content =>
                          /\ c.history \in
                                 {history,
                                  SubSeq(history, 1, historyIndex + 1)
                                      \o <<contentOf(c)>>}
                          /\ t.history = c.history
                          /\ t.historyIndex = c.historyIndex

\* Backspace at (0,0) with a redo entry waiting.
C6_Witness ==
    /\ hasCurrentFile(St)
    /\ cursorPosition = [line |-> 0, char |-> 0]
    /\ historyIndex >= 0
    /\ historyIndex < Len(history) - 1
    /\ historyAt(St, historyIndex) = <<content>>
    /\ contentOf(afterKey(St, Ev("Backspace", FALSE, FALSE))) = content

\* C7: undo at index 0 and redo at the last index leave the whole state as
\* it is: content, history, index, cursor, and no notification.
C7_UndoRedoAtBoundary ==
    hasCurrentFile(St) =>
        /\ historyIndex = 0 => \A z \in UndoEvents : afterKey(St, z) = St
        /\ historyIndex = Len(history) - 1 =>
               \A y \in RedoEvents : afterKey(St, y) = St

\* Undo at index 0 with a redo entry waiting and the cursor away from (0,0).
C7_Witness ==
    /\ hasCurrentFile(St)
    /\ historyIndex = 0
    /\ Len(history) > 1
    /\ cursorPosition # [line |-> 0, char |-> 0]

\* C8: an undo above index 0 (a redo below the last index) moves the index
\* by one, shows the history entry under it, and leaves the history as it is,
\* so the undone state can be redone.
C8_UndoRedoMoveIndexOnly ==
    hasCurrentFile(St) =>
        /\ historyIndex > 0 =>
               \A z \in UndoEvents :
                   LET u == afterKey(St, z)
                   IN  /\ u.historyIndex = historyIndex - 1
                       /\ u.history = history
                       /\ contentOf(u) = history[u.historyIndex + 1]
                       /\ u.historyIndex < Len(u.history) - 1
        /\ historyIndex < Len(history) - 1 =>
               \A y \in RedoEvents :
                   LET r == afterKey(St, y)
                   IN  /\ r.historyIndex = historyIndex + 1
                       /\ r.history = history
                       /\ contentOf(r) = history[r.historyIndex + 1]

\* An undo that changes the content shown, with the index above 0.
C8_Witness ==
    /\ hasCurrentFile(St)
    /\ historyIndex > 0
    /\ contentOf(afterKey(St, CtrlZ)) # content

\* C9: ArrowUp, ArrowDown, ArrowLeft, ArrowRight, Home and End change at
\* most the cursor: the documents, the history and the index stay.
C9_NavigationMovesCursorOnly ==
    \A e \in NavigationEvents :
        LET c == afterKey(St, e)
        IN  c = [St EXCEPT !.cursorPosition = c.cursorPosition]

\* A navigation key that moves the cursor while a redo entry waits.
C9_Witness ==
    /\ hasCurrentFile(St)
    /\ historyIndex < Len(history) - 1
    /\ \E e \in NavigationEvents :
           afterKey(St, e).cursorPosition # cursorPosition

\* C10: the load of a dropped file leaves that file the active document,
\* the cursor at (0,0) and the history with the single entry of its content,
\* index 0.
C10_LoadActivatesDocument ==
    \A reader \in BagToSet(pendingReads) :
        LET t == afterLoad(St, reader)
        IN  /\ t.currentFileIndex = Len(openedFiles)
            /\ hasCurrentFile(t)
            /\ currentFile(t) = [name |-> reader.name, content |-> reader.content]
            /\ t.cursorPosition = [line |-> 0, char |-> 0]
            /\ t.history = <<reader.content>>
            /\ t.historyIndex = 0

\* C11: closing the active document leaves no active document and an empty
\* history when it was the only one; otherwise it leaves the active index on
\* one of the remaining documents and the history with the single entry of
\* that document's content, index 0.
C11_CloseActiveDocument ==
    hasCurrentFile(St) =>
        LET t == afterClose(St, currentFileIndex)
        IN  IF Len(openedFiles) = 1
            THEN /\ t.openedFiles = <<>>
                 /\ ~hasCurrentFile(t)
                 /\ t.history = <<>>
                 /\ t.historyIndex = -1
            ELSE /\ Len(t.openedFiles) = Len(openedFiles) - 1
                 /\ hasCurrentFile(t)
                 /\ t.history = <<contentOf(t)>>
                 /\ t.historyIndex = 0

\* ------------------------------------------ literal occurrences of a query

\* Two characters are the same letter, whatever their case.
sameLetter(x, y) == x = y \/ {x, y} = {"a", "A"}

\* The query q, taken character by character, stands in str at index p.
occursAt(str, q, p) ==
    /\ p >= 0
    /\ p + Len(q) <= Len(str)
    /\ \A k \in 1..Len(q) : sameLetter(str[p + k], q[k])

\* The non-overlapping occurrences of a non-empty q in str from index p on,
\* taken from left to right.
RECURSIVE occurrences(_, _, _)
occurrences(str, q, p) ==
    IF p + Len(q) > Len(str) THEN <<>>
    ELSE IF occursAt(str, q, p)
    THEN <<p>> \o occurrences(str, q, p + Len(q))
    ELSE occurrences(str, q, p + 1)

\* str from index p on with each of those occurrences giving way to r.
RECURSIVE substitute(_, _, _, _)
substitute(str, q, r, p) ==
    IF p >= Len(str) THEN <<>>
    ELSE IF occursAt(str, q, p)
    THEN r \o substitute(str, q, r, p + Len(q))
    ELSE <<str[p + 1]>> \o substitute(str, q, r, p + 1)

\* The notification of a replace-all that replaced n occurrences.
replaced(n) ==
    [message |-> "Se reemplazaron n instancias.", count |-> n,
     name |-> <<>>, type |-> "success"]

\* C12: a replace-all with a non-empty query leaves the content with every
\* non-overlapping occurrence of the query (a literal, whatever the case,
\* from left to right) replaced by the replacement, and when it changes the
\* content it reports the number of occurrences in the content before.
C12_ReplaceAllResult ==
    (hasCurrentFile(St) /\ searchQuery # <<>>) =>
        LET t == afterReplaceAll(St)
        IN  /\ contentOf(t) = substitute(content, searchQuery, replaceQuery, 0)
            /\ contentOf(t) # content =>
                   t.notification =
                       replaced(Len(occurrences(content, searchQuery, 0)))

\* The notification of a replace-all that found nothing.
noMatches ==
    [message |-> "No se encontraron coincidencias.", count |-> 0,
     name |-> <<>>, type |-> "info"]

\* C13: a replace-all whose non-empty query occurs nowhere in the content
\* changes nothing but the notification, which becomes the informational
\* "no matches" one: content, history, index and cursor stay.
C13_ReplaceAllWithoutMatch ==
    (hasCurrentFile(St) /\ searchQuery # <<>>
         /\ occurrences(content, searchQuery, 0) = <<>>) =>
        afterReplaceAll(St) = [St EXCEPT !.notification = noMatches]

\* A query without an occurrence, with a history of two entries, the cursor
\* away from (0,0) and another notification showing.
C13_Witness ==
    /\ hasCurrentFile(St)
    /\ searchQuery # <<>>
    /\ occurrences(content, searchQuery, 0) = <<>>
    /\ Len(history) > 1
    /\ cursorPosition # [line |-> 0, char |-> 0]
    /\ notification # noMatches

\* str from index `from` on, with the len characters at each of the indices
\* giving way to the characters of r as they are.
RECURSIVE verbatim(_, _, _, _, _)
verbatim(str, len, r, indices, from) ==
    IF Len(indices) = 0 THEN SubSeq(str, from + 1, Len(str))
    ELSE SubSeq(str, from + 1, Head(indices)) \o r
             \o verbatim(str, len, r, Tail(indices), Head(indices) + len)

\* C14: a replace-all puts the characters of the replacement, as they are,
\* in the place of every match: a '$' in the replacement stands for itself.
C14_ReplacementIsVerbatim ==
    (hasCurrentFile(St) /\ searchQuery # <<>>) =>
        LET regex == RegExp(escapeRegExp(searchQuery))
        IN  contentOf(afterReplaceAll(St)) =
                verbatim(content, Len(regex), replaceQuery,
                         matchIndices(regex, content, 0), 0)

\* The index in the content of column 0 of a line: the lines before it, each
\* with its line break.
RECURSIVE lineStart(_, _)
lineStart(lines, line) ==
    IF line = 0 THEN 0
    ELSE lineStart(lines, line - 1) + Len(lines[line]) + 1

\* The regions of the content that the search results highlight, and those a
\* replace-all replaces, as pairs of indices in the content.
highlighted(s) ==
    {<<lineStart(split(contentOf(s)), s.searchResults[k].line)
           + s.searchResults[k].start,
       lineStart(split(contentOf(s)), s.searchResults[k].line)
           + s.searchResults[k].end>> : k \in 1..Len(s.searchResults)}

replacedRegions(s) ==
    LET regex   == RegExp(escapeRegExp(s.searchQuery))
        matches == matchIndices(regex, contentOf(s), 0)
    IN  {<<matches[k], matches[k] + Len(regex)>> : k \in 1..Len(matches)}

hasLineBreak(q) == \E i \in 1..Len(q) : q[i] = NL

find(s) ==
    IF Len(s.searchQuery) = 0 \/ ~hasCurrentFile(s) THEN <<>>
    ELSE linesResults(RegExp(escapeRegExp(s.searchQuery)),
                      split(contentOf(s)), 0)

\* The values of a render are those the handler left: the effects run after
\* it.  These are the renders that follow one event in state s.
rendersAfter(s) ==
    {handleKeyDown(s, e) : e \in KeyEvents}
        \cup {[s EXCEPT !.searchQuery = q] : q \in Queries}
        \cup {handleReplaceAll(s)}
        \cup {selectFile(s, i) : i \in 0..(Len(s.openedFiles) - 1)}
        \cup {handleClose(s, i) : i \in 0..(Len(s.openedFiles) - 1)}
        \cup {onload(s, reader) : reader \in BagToSet(s.pendingReads)}

\* C16: in every rendered state, the one the effects leave and the render
\* that comes before them, the search results are those of the content and
\* the query of that state.
C16_ResultsAreCurrent ==
    /\ searchResults = find(St)
    /\ \A s \in rendersAfter(St) : s.searchResults = find(s)

\* The spans of the non-overlapping occurrences of q in the lines from
\* lineIndex on, each line scanned from left to right on its own.
RECURSIVE spansOf(_, _, _)
spansOf(lines, q, lineIndex) ==
    IF lineIndex >= Len(lines) THEN <<>>
    ELSE LET starts == occurrences(lines[lineIndex + 1], q, 0)
         IN  [k \in 1..Len(starts) |->
                 [line |-> lineIndex, start |-> starts[k],
                  end |-> starts[k] + Len(q)]]
                 \o spansOf(lines, q, lineIndex + 1)

\* C17: for a non-empty query the search results are one span with
\* start < end for each non-overlapping occurrence of the query taken as a
\* literal string, letters compared without case, each line scanned on its
\* own from left to right; the spans come ordered by (line, start), each
\* covers an occurrence of the query inside its line, and no occurrence is
\* left outside them.
C17_FindIsLiteral ==
    (hasCurrentFile(St) /\ Len(searchQuery) > 0) =>
        LET lines == split(contentOf(St))
            n == Len(searchResults)
        IN  /\ searchResults = spansOf(lines, searchQuery, 0)
            /\ \A k \in 1..n :
                   LET r == searchResults[k]
                   IN  /\ r.line \in 0..(Len(lines) - 1)
                       /\ r.start < r.end
                       /\ r.end = r.start + Len(searchQuery)
                       /\ occursAt(lines[r.line + 1], searchQuery, r.start)
            /\ \A k \in 1..(n - 1) :
                   \/ searchResults[k].line < searchResults[k + 1].line
                   \/ /\ searchResults[k].line = searchResults[k + 1].line
                      /\ searchResults[k].end <= searchResults[k + 1].start
            /\ \A i \in 1..Len(lines) :
                   \A p \in 0..Len(lines[i]) :
                       occursAt(lines[i], searchQuery, p) =>
                           \E k \in 1..n :
                               /\ searchResults[k].line = i - 1
                               /\ searchResults[k].start < p + Len(searchQuery)
                               /\ p < searchResults[k].end

\* A dot is searched for in a content that has a letter between two dots:
\* the two dots are found, the letter is not.
C17_Witness ==
    /\ hasCurrentFile(St)
    /\ searchQuery = <<".">>
    /\ contentOf(St) = <<".", "a", ".">>
    /\ searchResults = << [line |-> 0, start |-> 0, end |-> 1],
                          [line |-> 0, start |-> 2, end |-> 3] >>

\* C18: with an empty query there are no search results, whatever the
\* content, and with no current file there are none either; a replace-all
\* with an empty query leaves the whole state as it is.
C18_NothingToSearch ==
    /\ (Len(searchQuery) = 0 \/ ~hasCurrentFile(St)) => searchResults = <<>>
    /\ Len(searchQuery) = 0 =>
           /\ handleReplaceAll(St) = St
           /\ afterReplaceAll(St) = St

\* The query is empty over a content that is not, with a replacement typed.
C18_Witness ==
    /\ hasCurrentFile(St)
    /\ Len(contentOf(St)) > 0
    /\ Len(searchQuery) = 0
    /\ Len(replaceQuery) > 0
    /\ searchResults = <<>>

\* The cursor of s stands on a line of the content, at a column of that line
\* or just behind it.
cursorInRange(s) ==
    /\ hasCurrentFile(s)
    /\ isLine(split(contentOf(s)), s.cursorPosition.line)
    /\ s.cursorPosition.char \in
           0..Len(split(contentOf(s))[s.cursorPosition.line + 1])

\* The state after a commit of its content as one new history entry behind
\* the entry under the index of s.
committedOnce(s, after) ==
    /\ after.history =
           SubSeq(s.history, 1, s.historyIndex + 1) \o <<contentOf(after)>>
    /\ after.historyIndex = s.historyIndex + 1

\* C19: a key of one printable character, pressed without a modifier with
\* the cursor in range at (l, c), puts the character at column c of line l,
\* leaves every other line and character as it was, moves the cursor to
\* (l, c + 1) and commits the new content as exactly one new history entry.
C19_TypedCharacter ==
    cursorInRange(St) =>
        \A ch \in SingleCharKeys \cap {e.key : e \in KeyEvents} :
            LET l     == cursorPosition.line
                c     == cursorPosition.char
                lines == split(content)
                after == afterKey(St, Ev(ch, FALSE, FALSE))
                now   == split(contentOf(after))
            IN  /\ hasCurrentFile(after)
                /\ Len(now) = Len(lines)
                /\ \A i \in 1..Len(lines) : i # l + 1 => now[i] = lines[i]
                /\ now[l + 1] = SubSeq(lines[l + 1], 1, c) \o <<ch>>
                                    \o SubSeq(lines[l + 1], c + 1,
                                              Len(lines[l + 1]))
                /\ after.cursorPosition = [line |-> l, char |-> c + 1]
                /\ committedOnce(St, after)

\* The characters of the lines, one line after the other.
RECURSIVE characters(_)
characters(lines) ==
    IF Len(lines) = 0 THEN <<>>
    ELSE Head(lines) \o characters(Tail(lines))

\* C20: Enter with the cursor in range at (l, c) cuts line l after its first
\* c characters and puts the rest in a new line l + 1: one line more, the
\* characters of all lines in a row unchanged, the cursor at (l + 1, 0), and
\* the new content committed to the history.
C20_EnterSplitsLine ==
    cursorInRange(St) =>
        LET l     == cursorPosition.line
            c     == cursorPosition.char
            lines == split(content)
            after == afterKey(St, Ev("Enter", FALSE, FALSE))
            now   == split(contentOf(after))
        IN  /\ hasCurrentFile(after)
            /\ Len(now) = Len(lines) + 1
            /\ \A i \in 1..l : now[i] = lines[i]
            /\ now[l + 1] = SubSeq(lines[l + 1], 1, c)
            /\ now[l + 2] = SubSeq(lines[l + 1], c + 1, Len(lines[l + 1]))
            /\ \A i \in (l + 2)..Len(lines) : now[i + 1] = lines[i]
            /\ characters(now) = characters(lines)
            /\ after.cursorPosition = [line |-> l + 1, char |-> 0]
            /\ committedOnce(St, after)

\* C21: Backspace with the cursor in range at (l, c).  With c > 0 the
\* character at column c - 1 of line l goes and the cursor is (l, c - 1);
\* with c = 0 and l > 0 line l is joined to the end of line l - 1, one line
\* less, and the cursor is (l - 1, former length of line l - 1); at (0, 0)
\* neither the content nor the cursor nor the history changes.
C21_Backspace ==
    cursorInRange(St) =>
        LET l     == cursorPosition.line
            c     == cursorPosition.char
            lines == split(content)
            after == afterKey(St, Ev("Backspace", FALSE, FALSE))
            now   == split(contentOf(after))
        IN  /\ hasCurrentFile(after)
            /\ c > 0 =>
                   /\ Len(now) = Len(lines)
                   /\ \A i \in 1..Len(lines) : i # l + 1 => now[i] = lines[i]
                   /\ now[l + 1] = SubSeq(lines[l + 1], 1, c - 1)
                                       \o SubSeq(lines[l + 1], c + 1,
                                                 Len(lines[l + 1]))
                   /\ after.cursorPosition = [line |-> l, char |-> c - 1]
            /\ (c = 0 /\ l > 0) =>
                   /\ Len(now) = Len(lines) - 1
                   /\ \A i \in 1..(l - 1) : now[i] = lines[i]
                   /\ now[l] = lines[l] \o lines[l + 1]
                   /\ \A i \in (l + 2)..Len(lines) : now[i - 1] = lines[i]
                   /\ after.cursorPosition =
                          [line |-> l - 1, char |-> Len(lines[l])]
            /\ (c = 0 /\ l = 0) =>
                   /\ contentOf(after) = content
                   /\ after.cursorPosition = cursorPosition
                   /\ after.history = history
                   /\ after.historyIndex = historyIndex

\* The cursor after a key pressed alone.
cursorAfter(key) == afterKey(St, Ev(key, FALSE, FALSE)).cursorPosition

at(l, c) == [line |-> l, char |-> c]

\* C22: from a cursor in range at (l, c) in N lines, ArrowLeft gives
\* (l, c - 1) if c > 0, else the end of line l - 1 if l > 0, else (0, 0)
\* again; ArrowRight gives (l, c + 1) if c is less than the length of line
\* l, else (l + 1, 0) if l < N - 1, else the same cursor again.  Neither goes
\* further than the line next to l.
C22_HorizontalMotion ==
    cursorInRange(St) =>
        LET l     == cursorPosition.line
            c     == cursorPosition.char
            lines == split(content)
            N     == Len(lines)
            left  == cursorAfter("ArrowLeft")
            right == cursorAfter("ArrowRight")
        IN  /\ left = IF c > 0 THEN at(l, c - 1)
                      ELSE IF l > 0 THEN at(l - 1, Len(lines[l]))
                      ELSE at(0, 0)
            /\ right = IF c < Len(lines[l + 1]) THEN at(l, c + 1)
                       ELSE IF l < N - 1 THEN at(l + 1, 0)
                       ELSE at(l, c)
            /\ left.line \in {l - 1, l}
            /\ right.line \in {l, l + 1}
            /\ (l = 0 /\ c = 0) => left = cursorPosition
            /\ (l = N - 1 /\ c = Len(lines[N])) => right = cursorPosition

\* The cursor is at the start of the second line, under a line that is not
\* empty: ArrowLeft takes it to the end of that line, and ArrowRight from
\* there takes it back.
C22_Witness ==
    /\ cursorInRange(St)
    /\ cursorPosition = at(1, 0)
    /\ Len(split(content)[1]) > 0
    /\ cursorAfter("ArrowLeft") = at(0, Len(split(content)[1]))

\* C23: from a cursor in range at (l, c) in N lines, ArrowUp gives line
\* l - 1 if l > 0 and ArrowDown line l + 1 if l < N - 1, the column being the
\* lesser of c and the length of the line arrived at; on the first line
\* ArrowUp, and on the last line ArrowDown, gives the same cursor again.
\* Home gives (l, 0) and End (l, length of line l).
C23_VerticalMotion ==
    cursorInRange(St) =>
        LET l     == cursorPosition.line
            c     == cursorPosition.char
            lines == split(content)
            N     == Len(lines)
        IN  /\ cursorAfter("ArrowUp") =
                   IF l > 0 THEN at(l - 1, Min(c, Len(lines[l])))
                   ELSE at(l, c)
            /\ cursorAfter("ArrowDown") =
                   IF l < N - 1 THEN at(l + 1, Min(c, Len(lines[l + 2])))
                   ELSE at(l, c)
            /\ cursorAfter("Home") = at(l, 0)
            /\ cursorAfter("End") = at(l, Len(lines[l + 1]))

\* The cursor is on the first line at a column the second line does not
\* have: ArrowDown takes it to the end of the second line.
C23_Witness ==
    /\ cursorInRange(St)
    /\ cursorPosition.line = 0
    /\ Len(split(content)) > 1
    /\ cursorPosition.char > Len(split(content)[2])
    /\ cursorAfter("ArrowDown") = at(1, Len(split(content)[2]))

\* L is a content in lines: at least one line, no line break inside a line,
\* and the flat content made of L splits into L again.
isLineSequence(L) ==
    /\ Len(L) >= 1
    /\ \A i \in 1..Len(L) : \A j \in 1..Len(L[i]) : L[i][j] # NL
    /\ split(join(L)) = L

\* The lines the switch of handleKeyDown leaves for key e, to be joined into
\* the new content.
linesAfter(e) ==
    keySwitch(Keyed(split(content), cursorPosition.line, cursorPosition.char), e)

\* C24: the lines of the content of a loaded document, after any keys,
\* undo, redo and replace-all, are at least one line, have no line break
\* inside a line, and joined and split again are the same lines, as the
\* content split and joined again is the same content; and so are the lines
\* that a key handler is about to join into the next content.
C24_LinesRoundTrip ==
    hasCurrentFile(St) =>
        /\ isLineSequence(split(content))
        /\ join(split(content)) = content
        /\ \A e \in MotionEvents \cup SwitchEvents :
               ~linesAfter(e).threw => isLineSequence(linesAfter(e).lines)

\* Enter was pressed and committed: the content has one line more than the
\* history entry before it.
C24_Witness ==
    /\ hasCurrentFile(St)
    /\ Len(history) = 2
    /\ historyIndex = 1
    /\ history[2] = content
    /\ Len(split(content)) = Len(split(history[1])) + 1
    /\ Len(split(content)) >= 3

\* The number of separators in the first n characters of a line.
RECURSIVE separatorsIn(_, _)
separatorsIn(line, n) ==
    IF n = 0 THEN 0
    ELSE separatorsIn(line, n - 1) + (IF line[n] = ";" THEN 1 ELSE 0)

\* C25, as stated: with more than 3 fields between the ';' of a line, the
\* offset of the line is the lengths of the first three fields together,
\* plus one for a separator; with 3 fields or fewer it is 0.
C25_OffsetIsFieldsPlusOne ==
    hasCurrentFile(St) =>
        \A i \in 0..(Len(split(content)) - 1) :
            LET fields == splitOn(split(content)[i + 1], ";")
            IN  letterStartIndex(St, i) =
                    IF Len(fields) > 3
                    THEN Len(fields[1]) + Len(fields[2]) + Len(fields[3]) + 1
                    ELSE 0

\* C25, as the code has it: with more than 3 fields the offset is the
\* lengths of the first three fields together plus three, one for each of
\* the separators that end them, which is the column where the fourth field
\* starts, right behind the third ';'; with 3 fields or fewer it is 0.
C25_OffsetIsStartOfFourthField ==
    hasCurrentFile(St) =>
        \A i \in 0..(Len(split(content)) - 1) :
            LET line   == split(content)[i + 1]
                fields == splitOn(line, ";")
                offset == letterStartIndex(St, i)
            IN  /\ Len(fields) = separatorsIn(line, Len(line)) + 1
                /\ Len(fields) > 3 =>
                       /\ offset = Len(fields[1]) + Len(fields[2])
                                       + Len(fields[3]) + 3
                       /\ offset \in 1..Len(line)
                       /\ line[offset] = ";"
                       /\ separatorsIn(line, offset) = 3
                /\ Len(fields) <= 3 => offset = 0

\* A line of four fields, the first of them not empty.
C25_Witness ==
    /\ hasCurrentFile(St)
    /\ split(content)[1] = <<"a", ";", ";", ";">>
    /\ letterStartIndex(St, 0) = 4

\* A key pressed with Alt held and neither Ctrl nor Cmd.  The handler reads
\* key, ctrlKey and metaKey of the event and nothing else.
EvAlt(key) ==
    [key |-> key, ctrlKey |-> FALSE, metaKey |-> FALSE, altKey |-> TRUE]

\* Keys without a case of their own whose name is longer than a character,
\* and a character pressed with Ctrl or with Cmd that is no shortcut.
UnknownEvents ==
    {Ev(k, c, m) : k \in {"Tab", "Delete", "Escape", "F1"},
                   c \in BOOLEAN, m \in BOOLEAN}
        \cup {Ev("a", TRUE, FALSE), Ev("a", FALSE, TRUE), Ev("a", TRUE, TRUE),
              Ev("h", TRUE, FALSE)}

\* Key e leaves the content, the cursor and the history as they are.
ignored(e) ==
    LET after == afterKey(St, e)
    IN  /\ after.openedFiles = openedFiles
        /\ after.currentFileIndex = currentFileIndex
        /\ after.cursorPosition = cursorPosition
        /\ after.history = history
        /\ after.historyIndex = historyIndex

\* C26: a key that has no case of its own and is not a single character
\* pressed without a modifier changes nothing: Tab, Delete, Escape, F1, a
\* character with Ctrl or Cmd that is no shortcut, and a character with Alt.
C26_OtherKeysIgnored ==
    hasCurrentFile(St) =>
        /\ \A e \in UnknownEvents : ignored(e)
        /\ ignored(EvAlt("a"))

\* Key e gets as far as the switch of handleKeyDown: a file is current and e
\* is none of the shortcuts that return before it.
reachesSwitch(s, e) ==
    /\ hasCurrentFile(s)
    /\ ~((e.ctrlKey \/ e.metaKey) /\ e.key \in {"s", "z", "y"})

\* C27: in every reachable state every key is handled to the end: no
\* TypeError is thrown in the switch of handleKeyDown, wherever the cursor
\* is.
C27_KeysNeverThrow ==
    \A e \in KeyEvents :
        reachesSwitch(St, e) => ~linesAfter(e).threw

\* What localStorage may hold at the next visit when what the session stored
\* was damaged in between: the list text cut short, the list text replaced
\* by the JSON of an object, the files of the list without their content
\* and one more of that kind, and the index replaced by a text that is no
\* number.
damaged(storage) ==
    LET files == IF storage.myEditorOpenedFiles = <<>> THEN <<>>
                 ELSE storage.myEditorOpenedFiles[1].json
        bare  == [i \in 1..Len(files) |-> [name |-> files[i].name]]
    IN  {[storage EXCEPT !.myEditorOpenedFiles = <<NotJSON>>],
         [storage EXCEPT !.myEditorOpenedFiles = <<JSONOfObject>>],
         [storage EXCEPT !.myEditorOpenedFiles =
              <<[json |-> bare \o <<[name |-> <<"f">>]>>]>>],
         [storage EXCEPT !.myEditorCurrentFileIndex = << <<"x">> >>]}

\* The state the load effect leaves on a fresh page.
loaded(storage) == loadEffect(mount(storage))

\* C28: when what is stored is malformed (a list text that does not parse
\* or is not an array, list elements that are not files with a content, an
\* index that is no number), the page starts with the empty file list and
\* no current file.
C28_MalformedStorageGivesEmptyList ==
    \A storage \in damaged(localStorage) :
        /\ loaded(storage).openedFiles = <<>>
        /\ ~hasCurrentFile(loaded(storage))

\* The states in which another document has just become the current one:
\* after a click on another tab, after the close of the current tab with a
\* tab left, and after the load that makes the new document the current one.
newlyCurrent(s) ==
    {t \in {afterSelect(s, i) : i \in 0..(Len(s.openedFiles) - 1)
                                     \ {s.currentFileIndex}}
               \cup {afterClose(s, i) : i \in 0..(Len(s.openedFiles) - 1)
                                            \cap {s.currentFileIndex}}
               \cup {u \in {afterLoad(s, reader) :
                                reader \in BagToSet(s.pendingReads)} :
                         u.currentFileIndex = Len(s.openedFiles)} :
         hasCurrentFile(t)}

\* C29: undo and redo give a document only contents it had since it became
\* the current one, so right after it became the current one they leave its
\* content as it is; and a document that was just loaded, never having had
\* a cursor, has the cursor at (0, 0) and not where it was in the document
\* before.
C29_NothingCarriedOver ==
    /\ \A t \in newlyCurrent(St) :
           /\ contentOf(afterKey(t, CtrlZ)) = contentOf(t)
           /\ contentOf(afterKey(t, CtrlY)) = contentOf(t)
    /\ \A reader \in BagToSet(pendingReads) :
           LET t == afterLoad(St, reader)
           IN  (t.currentFileIndex = Len(openedFiles) /\ hasCurrentFile(t)) =>
                   t.cursorPosition = at(0, 0)

\* C30: whenever a document is open, the current index is the index of one
\* of the open documents.
C30_IndexInRange ==
    Len(openedFiles) > 0 => hasCurrentFile(St)

\* C31: whenever the history has entries the index is the index of one of
\* them, and the history is empty with index -1 only when there is no
\* current file; with a current file the history has entries.
C31_HistoryIndexInRange ==
    /\ Len(history) > 0 => (historyIndex >= 0 /\ historyIndex < Len(history))
    /\ Len(history) = 0 => (historyIndex = -1 /\ ~hasCurrentFile(St))
    /\ hasCurrentFile(St) => Len(history) > 0

\* Two entries with the index on the first: an edit was committed and
\* undone.
C31_Witness ==
    /\ hasCurrentFile(St)
    /\ Len(history) = 2
    /\ historyIndex = 0
    /\ history[1] = content
    /\ history[2] # content

\* C32: the close of a tab that is not the current one leaves the current
\* file the file it was, with its content, and leaves the cursor, the
\* history and its index as they were.
C32_CloseOfOtherDocument ==
    hasCurrentFile(St) =>
        \A i \in 0..(Len(openedFiles) - 1) \ {currentFileIndex} :
            LET after == afterClose(St, i)
            IN  /\ hasCurrentFile(after)
                /\ currentFile(after) = currentFile(St)
                /\ after.currentFileIndex =
                       IF i < currentFileIndex THEN currentFileIndex - 1
                       ELSE currentFileIndex
                /\ after.cursorPosition = cursorPosition
                /\ after.history = history
                /\ after.historyIndex = historyIndex

\* C33: a replace-all that changes the content is one step of the history:
\* the new content is the one entry added behind the entry under the index,
\* the entries that were behind it being dropped; an undo right after it
\* gives the content there was before it, and a redo after that undo the
\* content it had given.
C33_ReplaceAllIsOneStep ==
    (hasCurrentFile(St)
        /\ contentOf(afterReplaceAll(St)) # content) =>
        LET replacedState == afterReplaceAll(St)
            undone        == afterKey(replacedState, CtrlZ)
            redone        == afterKey(undone, CtrlY)
        IN  /\ committedOnce(St, replacedState)
            /\ contentOf(undone) = content
            /\ undone.historyIndex = historyIndex
            /\ contentOf(redone) = contentOf(replacedState)
            /\ redone.history = replacedState.history
            /\ redone.historyIndex = replacedState.historyIndex

\* C34: with a current file and a non-empty query, a replace-all asked for
\* while no notification shows leaves exactly one: the informational "no
\* matches" one if the query occurs nowhere in the content, and else the
\* success one with the number of occurrences, whatever the replacement is,
\* also one that leaves the content the same text.
C34_ReplaceAllReportsOutcome ==
    (hasCurrentFile(St) /\ searchQuery # <<>>) =>
        LET n == Len(occurrences(content, searchQuery, 0))
            r == afterReplaceAll([St EXCEPT !.notification = NoNotification])
        IN  r.notification = IF n = 0 THEN noMatches ELSE replaced(n)

\* The stored items are those of the file list and the index of s.
isStored(s) ==
    s.localStorage = stored(s.openedFiles, s.currentFileIndex)

\* C35: once something was stored, what is stored is the current file list
\* and the current index, and stays so after the render that follows any
\* key, replace-all, tab click, close (of the last tab too) or load; the
\* next visit then starts with that list and that index.
C35_StoredIsCurrent ==
    /\ localStorage # NoStorage => isStored(St)
    /\ \A e \in KeyEvents : hasCurrentFile(St) => isStored(afterKey(St, e))
    /\ hasCurrentFile(St) => isStored(afterReplaceAll(St))
    /\ \A i \in 0..(Len(openedFiles) - 1) :
           /\ isStored(afterSelect(St, i))
           /\ isStored(afterClose(St, i))
    /\ \A reader \in BagToSet(pendingReads) : isStored(afterLoad(St, reader))
    /\ localStorage # NoStorage =>
           /\ revisit(localStorage).openedFiles = openedFiles
           /\ revisit(localStorage).currentFileIndex = currentFileIndex

====
